---- MODULE Spec2Model ----
(***************************************************************************)
(* Model of bot.py: the ConversationManager (a defaultdict of bounded      *)
(* deques behind one threading.Lock) and the Telegram command handlers     *)
(* that use it (/chat, /chat_wipe, /chat_context, /chat_range), run by     *)
(* the bot's worker threads.                                               *)
(*                                                                         *)
(* Messages are dicts allocated on the heap; a deque and a list hold       *)
(* references (heap indices) to them.  Each handler is a sequence of       *)
(* steps of one worker thread; a step is one lock acquisition, one locked  *)
(* region of in-memory work, or one network call.                          *)
(***************************************************************************)
EXTENDS Integers, Sequences, FiniteSets, TLC

\* ---- bound of the model -------------------------------------------------
\* add_message calls in one behaviour of the concurrent handlers (the message
\* dicts ever allocated)
MaxMsgs == 4
\* add_message calls in one behaviour of the handlers under fairness
MaxFairMsgs == 2
\* add_message calls in one behaviour of the handlers of two chats
MaxTwoChatMsgs == 3
\* add_message calls in one behaviour of the single caller
MaxAppends == 35

\* ---- program constants --------------------------------------------------
\* the worker threads of the TeleBot built at line 166 (telebot's default)
num_threads == 2
\* ConversationManager(max_turns=30)
max_turns == 30
MinRange == 1
MaxRange == 1000
\* sys.int_info.default_max_str_digits: the most digits int() converts
MaxStrDigits == 4300

Threads == 1..num_threads
\* the chat ids of the model, and the chat whose handlers run concurrently
ChatIds == {1, 2}
SharedChat == {1}

\* the prompt of a /chat message after line 56 ("" when the text has none)
Prompts == {"", "p"}
\* the completion's answer after line 74
Answers == {"a"}
\* the text after "/chat_range" (args[1]), as a sequence of characters;
\* NoArg when len(args) = 1
NoArg == <<"none">>
\* the value 1 written with one digit more than int() converts
LongOne == [i \in 1..MaxStrDigits |-> "0"] \o <<"1">>
RangeTexts == { <<"0">>, <<"1">>, <<"2">>, <<"-", "1">>, <<"x">>,
                <<"1", "0", "0", "0">>, <<"1", "0", "0", "1">>,
                <<"2", " ">>, <<"U+FF10", "_", "1">>, LongOne }

NoThread == 0
SysId == 0
SYSTEM_PROMPT == [role |-> "system",
                  content |-> "You are a helpful assistant that remembers the conversation."]

VARIABLES
    histories,  \* conv_mgr._histories: chat_id -> deque, for the keys present
    lock,       \* conv_mgr._lock: the thread that holds it, or NoThread
    heap,       \* the message dicts allocated so far, by reference
    pc,         \* each worker thread's position in its handler
    chat_id,    \* each handler's msg.chat.id
    prompt,     \* the local prompt of ask_ds
    args,       \* chat_range's args[1] (NoArg when len(args) = 1)
    history,    \* the local list `history` of ask_ds and chat_context
    old_max,    \* the local old_max of chat_range / the maxlen read at line 96
    new_deque,  \* the local new_deque of chat_range
    answer,     \* the local answer of ask_ds
    appended    \* per chat: the messages appended since the last clear or
                \* resize, preceded by those the resize kept

vars == <<histories, lock, heap, pc, chat_id, prompt, args, history, old_max,
          new_deque, answer, appended>>

\* ---- sequences ----------------------------------------------------------
Min(a, b) == IF a <= b THEN a ELSE b

\* the last n elements of s (all of s when it has fewer)
LastN(s, n) == SubSeq(s, Len(s) - Min(n, Len(s)) + 1, Len(s))

\* ---- collections.deque --------------------------------------------------
NoDeque == [q |-> <<>>, maxlen |-> 0]

\* a deque that keeps the first n items of the iterable
DequeKeepsOldest(items, n) == [q |-> SubSeq(items, 1, Min(n, Len(items))), maxlen |-> n]

\* deque(iterable, maxlen=n): keeps the last n items of the iterable
Deque(items, n) == [q |-> LastN(items, n), maxlen |-> n]

\* an append that never discards
DequeAppendUnbounded(d, x) == [d EXCEPT !.q = d.q \o <<x>>]

\* an append that refuses the new item when the deque is full
DequeAppendRejects(d, x) ==
    [d EXCEPT !.q = IF Len(d.q) >= d.maxlen THEN d.q ELSE d.q \o <<x>>]

\* deque.append(x) on a bounded deque: when full, the leftmost item is
\* discarded
DequeAppend(d, x) ==
    [d EXCEPT !.q = IF Len(d.q) >= d.maxlen
                    THEN LastN(d.q \o <<x>>, d.maxlen)
                    ELSE d.q \o <<x>>]

\* a copy that misses the newest element
ListCopyPartial(d) == SubSeq(d.q, 1, Len(d.q) - 1)

\* list(deque): a new list with the same element references
ListCopy(d) == d.q

\* ---- the defaultdict ----------------------------------------------------
\* a factory that uses the class's default, ConversationManager(max_turns=20)
DefaultFactoryClassDefault == Deque(<<>>, 20)

\* the default factory: lambda: deque(maxlen=max_turns)
DefaultFactory == Deque(<<>>, max_turns)

Present(c) == c \in DOMAIN histories

\* d[k] = v
SetItem(h, k, v) == [c \in DOMAIN h \cup {k} |-> IF c = k THEN v ELSE h[c]]

\* a clear that empties the deque and keeps the entry
PopKeepsEntry(h, k) ==
    [c \in DOMAIN h |-> IF c = k THEN [q |-> <<>>, maxlen |-> h[c].maxlen] ELSE h[c]]

\* a clear written self._histories[chat_id].clear(): it empties the deque in
\* place, and inserts one for a missing key
PopClearsInPlace(h, k) ==
    [c \in DOMAIN h \cup {k} |->
        IF c = k
        THEN [q |-> <<>>, maxlen |-> IF k \in DOMAIN h THEN h[k].maxlen ELSE max_turns]
        ELSE h[c]]

\* a clear written self._histories.clear(): it drops every conversation
PopEverything(h, k) == [c \in {} |-> NoDeque]

\* d.pop(k, None)
Pop(h, k) == [c \in DOMAIN h \ {k} |-> h[c]]

\* d[k] under the lock: a missing key is inserted with the factory's value
GetItem(h, k) == IF k \in DOMAIN h THEN h ELSE SetItem(h, k, DefaultFactory)

\* ---- what the store holds for a conversation ----------------------------
\* getHistory(id): the stored references, empty for an unseen id
Hist(c) == IF Present(c) THEN histories[c].q ELSE <<>>

\* getCapacity(id): the deque's maxlen, the default for an unseen id
Cap(c) == IF Present(c) THEN histories[c].maxlen ELSE DefaultFactory.maxlen

Deref(id) == IF id = SysId THEN SYSTEM_PROMPT ELSE heap[id]

\* the messages a list of references denotes
Values(s) == [i \in 1..Len(s) |-> Deref(s[i])]


\* ---- int(args[1]) and the range check (lines 121-123) --------------------
\* a character is a one-character string; a character outside printable
\* ASCII is written by its code point, "U+0663" for ARABIC-INDIC DIGIT THREE
\* the characters int() reads as the decimal digits 0 to 9 (DecimalDigits[v + 1]
\* holds those of value v): the 660 characters of Unicode category Nd
DecimalDigits ==
    << {"0", "U+0660", "U+06F0", "U+07C0", "U+0966", "U+09E6", "U+0A66",
        "U+0AE6", "U+0B66", "U+0BE6", "U+0C66", "U+0CE6", "U+0D66", "U+0DE6",
        "U+0E50", "U+0ED0", "U+0F20", "U+1040", "U+1090", "U+17E0", "U+1810",
        "U+1946", "U+19D0", "U+1A80", "U+1A90", "U+1B50", "U+1BB0", "U+1C40",
        "U+1C50", "U+A620", "U+A8D0", "U+A900", "U+A9D0", "U+A9F0", "U+AA50",
        "U+ABF0", "U+FF10", "U+104A0", "U+10D30", "U+11066", "U+110F0",
        "U+11136", "U+111D0", "U+112F0", "U+11450", "U+114D0", "U+11650",
        "U+116C0", "U+11730", "U+118E0", "U+11950", "U+11C50", "U+11D50",
        "U+11DA0", "U+16A60", "U+16AC0", "U+16B50", "U+1D7CE", "U+1D7D8",
        "U+1D7E2", "U+1D7EC", "U+1D7F6", "U+1E140", "U+1E2F0", "U+1E950",
        "U+1FBF0"},
       {"1", "U+0661", "U+06F1", "U+07C1", "U+0967", "U+09E7", "U+0A67",
        "U+0AE7", "U+0B67", "U+0BE7", "U+0C67", "U+0CE7", "U+0D67", "U+0DE7",
        "U+0E51", "U+0ED1", "U+0F21", "U+1041", "U+1091", "U+17E1", "U+1811",
        "U+1947", "U+19D1", "U+1A81", "U+1A91", "U+1B51", "U+1BB1", "U+1C41",
        "U+1C51", "U+A621", "U+A8D1", "U+A901", "U+A9D1", "U+A9F1", "U+AA51",
        "U+ABF1", "U+FF11", "U+104A1", "U+10D31", "U+11067", "U+110F1",
        "U+11137", "U+111D1", "U+112F1", "U+11451", "U+114D1", "U+11651",
        "U+116C1", "U+11731", "U+118E1", "U+11951", "U+11C51", "U+11D51",
        "U+11DA1", "U+16A61", "U+16AC1", "U+16B51", "U+1D7CF", "U+1D7D9",
        "U+1D7E3", "U+1D7ED", "U+1D7F7", "U+1E141", "U+1E2F1", "U+1E951",
        "U+1FBF1"},
       {"2", "U+0662", "U+06F2", "U+07C2", "U+0968", "U+09E8", "U+0A68",
        "U+0AE8", "U+0B68", "U+0BE8", "U+0C68", "U+0CE8", "U+0D68", "U+0DE8",
        "U+0E52", "U+0ED2", "U+0F22", "U+1042", "U+1092", "U+17E2", "U+1812",
        "U+1948", "U+19D2", "U+1A82", "U+1A92", "U+1B52", "U+1BB2", "U+1C42",
        "U+1C52", "U+A622", "U+A8D2", "U+A902", "U+A9D2", "U+A9F2", "U+AA52",
        "U+ABF2", "U+FF12", "U+104A2", "U+10D32", "U+11068", "U+110F2",
        "U+11138", "U+111D2", "U+112F2", "U+11452", "U+114D2", "U+11652",
        "U+116C2", "U+11732", "U+118E2", "U+11952", "U+11C52", "U+11D52",
        "U+11DA2", "U+16A62", "U+16AC2", "U+16B52", "U+1D7D0", "U+1D7DA",
        "U+1D7E4", "U+1D7EE", "U+1D7F8", "U+1E142", "U+1E2F2", "U+1E952",
        "U+1FBF2"},
       {"3", "U+0663", "U+06F3", "U+07C3", "U+0969", "U+09E9", "U+0A69",
        "U+0AE9", "U+0B69", "U+0BE9", "U+0C69", "U+0CE9", "U+0D69", "U+0DE9",
        "U+0E53", "U+0ED3", "U+0F23", "U+1043", "U+1093", "U+17E3", "U+1813",
        "U+1949", "U+19D3", "U+1A83", "U+1A93", "U+1B53", "U+1BB3", "U+1C43",
        "U+1C53", "U+A623", "U+A8D3", "U+A903", "U+A9D3", "U+A9F3", "U+AA53",
        "U+ABF3", "U+FF13", "U+104A3", "U+10D33", "U+11069", "U+110F3",
        "U+11139", "U+111D3", "U+112F3", "U+11453", "U+114D3", "U+11653",
        "U+116C3", "U+11733", "U+118E3", "U+11953", "U+11C53", "U+11D53",
        "U+11DA3", "U+16A63", "U+16AC3", "U+16B53", "U+1D7D1", "U+1D7DB",
        "U+1D7E5", "U+1D7EF", "U+1D7F9", "U+1E143", "U+1E2F3", "U+1E953",
        "U+1FBF3"},
       {"4", "U+0664", "U+06F4", "U+07C4", "U+096A", "U+09EA", "U+0A6A",
        "U+0AEA", "U+0B6A", "U+0BEA", "U+0C6A", "U+0CEA", "U+0D6A", "U+0DEA",
        "U+0E54", "U+0ED4", "U+0F24", "U+1044", "U+1094", "U+17E4", "U+1814",
        "U+194A", "U+19D4", "U+1A84", "U+1A94", "U+1B54", "U+1BB4", "U+1C44",
        "U+1C54", "U+A624", "U+A8D4", "U+A904", "U+A9D4", "U+A9F4", "U+AA54",
        "U+ABF4", "U+FF14", "U+104A4", "U+10D34", "U+1106A", "U+110F4",
        "U+1113A", "U+111D4", "U+112F4", "U+11454", "U+114D4", "U+11654",
        "U+116C4", "U+11734", "U+118E4", "U+11954", "U+11C54", "U+11D54",
        "U+11DA4", "U+16A64", "U+16AC4", "U+16B54", "U+1D7D2", "U+1D7DC",
        "U+1D7E6", "U+1D7F0", "U+1D7FA", "U+1E144", "U+1E2F4", "U+1E954",
        "U+1FBF4"},
       {"5", "U+0665", "U+06F5", "U+07C5", "U+096B", "U+09EB", "U+0A6B",
        "U+0AEB", "U+0B6B", "U+0BEB", "U+0C6B", "U+0CEB", "U+0D6B", "U+0DEB",
        "U+0E55", "U+0ED5", "U+0F25", "U+1045", "U+1095", "U+17E5", "U+1815",
        "U+194B", "U+19D5", "U+1A85", "U+1A95", "U+1B55", "U+1BB5", "U+1C45",
        "U+1C55", "U+A625", "U+A8D5", "U+A905", "U+A9D5", "U+A9F5", "U+AA55",
        "U+ABF5", "U+FF15", "U+104A5", "U+10D35", "U+1106B", "U+110F5",
        "U+1113B", "U+111D5", "U+112F5", "U+11455", "U+114D5", "U+11655",
        "U+116C5", "U+11735", "U+118E5", "U+11955", "U+11C55", "U+11D55",
        "U+11DA5", "U+16A65", "U+16AC5", "U+16B55", "U+1D7D3", "U+1D7DD",
        "U+1D7E7", "U+1D7F1", "U+1D7FB", "U+1E145", "U+1E2F5", "U+1E955",
        "U+1FBF5"},
       {"6", "U+0666", "U+06F6", "U+07C6", "U+096C", "U+09EC", "U+0A6C",
        "U+0AEC", "U+0B6C", "U+0BEC", "U+0C6C", "U+0CEC", "U+0D6C", "U+0DEC",
        "U+0E56", "U+0ED6", "U+0F26", "U+1046", "U+1096", "U+17E6", "U+1816",
        "U+194C", "U+19D6", "U+1A86", "U+1A96", "U+1B56", "U+1BB6", "U+1C46",
        "U+1C56", "U+A626", "U+A8D6", "U+A906", "U+A9D6", "U+A9F6", "U+AA56",
        "U+ABF6", "U+FF16", "U+104A6", "U+10D36", "U+1106C", "U+110F6",
        "U+1113C", "U+111D6", "U+112F6", "U+11456", "U+114D6", "U+11656",
        "U+116C6", "U+11736", "U+118E6", "U+11956", "U+11C56", "U+11D56",
        "U+11DA6", "U+16A66", "U+16AC6", "U+16B56", "U+1D7D4", "U+1D7DE",
        "U+1D7E8", "U+1D7F2", "U+1D7FC", "U+1E146", "U+1E2F6", "U+1E956",
        "U+1FBF6"},
       {"7", "U+0667", "U+06F7", "U+07C7", "U+096D", "U+09ED", "U+0A6D",
        "U+0AED", "U+0B6D", "U+0BED", "U+0C6D", "U+0CED", "U+0D6D", "U+0DED",
        "U+0E57", "U+0ED7", "U+0F27", "U+1047", "U+1097", "U+17E7", "U+1817",
        "U+194D", "U+19D7", "U+1A87", "U+1A97", "U+1B57", "U+1BB7", "U+1C47",
        "U+1C57", "U+A627", "U+A8D7", "U+A907", "U+A9D7", "U+A9F7", "U+AA57",
        "U+ABF7", "U+FF17", "U+104A7", "U+10D37", "U+1106D", "U+110F7",
        "U+1113D", "U+111D7", "U+112F7", "U+11457", "U+114D7", "U+11657",
        "U+116C7", "U+11737", "U+118E7", "U+11957", "U+11C57", "U+11D57",
        "U+11DA7", "U+16A67", "U+16AC7", "U+16B57", "U+1D7D5", "U+1D7DF",
        "U+1D7E9", "U+1D7F3", "U+1D7FD", "U+1E147", "U+1E2F7", "U+1E957",
        "U+1FBF7"},
       {"8", "U+0668", "U+06F8", "U+07C8", "U+096E", "U+09EE", "U+0A6E",
        "U+0AEE", "U+0B6E", "U+0BEE", "U+0C6E", "U+0CEE", "U+0D6E", "U+0DEE",
        "U+0E58", "U+0ED8", "U+0F28", "U+1048", "U+1098", "U+17E8", "U+1818",
        "U+194E", "U+19D8", "U+1A88", "U+1A98", "U+1B58", "U+1BB8", "U+1C48",
        "U+1C58", "U+A628", "U+A8D8", "U+A908", "U+A9D8", "U+A9F8", "U+AA58",
        "U+ABF8", "U+FF18", "U+104A8", "U+10D38", "U+1106E", "U+110F8",
        "U+1113E", "U+111D8", "U+112F8", "U+11458", "U+114D8", "U+11658",
        "U+116C8", "U+11738", "U+118E8", "U+11958", "U+11C58", "U+11D58",
        "U+11DA8", "U+16A68", "U+16AC8", "U+16B58", "U+1D7D6", "U+1D7E0",
        "U+1D7EA", "U+1D7F4", "U+1D7FE", "U+1E148", "U+1E2F8", "U+1E958",
        "U+1FBF8"},
       {"9", "U+0669", "U+06F9", "U+07C9", "U+096F", "U+09EF", "U+0A6F",
        "U+0AEF", "U+0B6F", "U+0BEF", "U+0C6F", "U+0CEF", "U+0D6F", "U+0DEF",
        "U+0E59", "U+0ED9", "U+0F29", "U+1049", "U+1099", "U+17E9", "U+1819",
        "U+194F", "U+19D9", "U+1A89", "U+1A99", "U+1B59", "U+1BB9", "U+1C49",
        "U+1C59", "U+A629", "U+A8D9", "U+A909", "U+A9D9", "U+A9F9", "U+AA59",
        "U+ABF9", "U+FF19", "U+104A9", "U+10D39", "U+1106F", "U+110F9",
        "U+1113F", "U+111D9", "U+112F9", "U+11459", "U+114D9", "U+11659",
        "U+116C9", "U+11739", "U+118E9", "U+11959", "U+11C59", "U+11D59",
        "U+11DA9", "U+16A69", "U+16AC9", "U+16B59", "U+1D7D7", "U+1D7E1",
        "U+1D7EB", "U+1D7F5", "U+1D7FF", "U+1E149", "U+1E2F9", "U+1E959",
        "U+1FBF9"} >>

Digits == UNION {DecimalDigits[i] : i \in 1..10}

\* the decimal value of a digit character
DigitVal(ch) == (CHOOSE i \in 1..10 : ch \in DecimalDigits[i]) - 1

\* the digits of s from its first nonzero digit on
Significant(s) ==
    LET nonzero == {i \in 1..Len(s) : s[i] \notin DecimalDigits[1]}
    IN  IF nonzero = {} THEN <<>>
        ELSE SubSeq(s, CHOOSE i \in nonzero : \A j \in nonzero : i <= j, Len(s))

RECURSIVE SignificantVal(_)
SignificantVal(s) ==
    IF s = <<>> THEN 0
    ELSE 10 * SignificantVal(SubSeq(s, 1, Len(s) - 1)) + DigitVal(s[Len(s)])

\* the number a sequence of decimal digits denotes; leading zeros add nothing
DigitsVal(s) == SignificantVal(Significant(s))

AllDigits(s) == s # <<>> /\ \A i \in 1..Len(s) : s[i] \in Digits

\* the whitespace int() strips from both ends of its argument: the 25
\* characters c with int("1" + c) = int(c + "1") = 1
Whitespace ==
    {"\t", "\n", "U+000B", "\f", "\r", " ", "U+0085", "U+00A0", "U+1680",
     "U+2000", "U+2001", "U+2002", "U+2003", "U+2004", "U+2005", "U+2006",
     "U+2007", "U+2008", "U+2009", "U+200A", "U+2028", "U+2029", "U+202F",
     "U+205F", "U+3000"}

RECURSIVE StripLeft(_)
StripLeft(s) ==
    IF s # <<>> /\ s[1] \in Whitespace THEN StripLeft(Tail(s)) ELSE s

RECURSIVE StripRight(_)
StripRight(s) ==
    IF s # <<>> /\ s[Len(s)] \in Whitespace
    THEN StripRight(SubSeq(s, 1, Len(s) - 1))
    ELSE s

Strip(s) == StripRight(StripLeft(s))

NotUnderscore(ch) == ch # "_"

\* digits, with single underscores allowed between two digits
DigitGroups(s) ==
    /\ s # <<>>
    /\ \A i \in 1..Len(s) : s[i] \in Digits \cup {"_"}
    /\ s[1] # "_" /\ s[Len(s)] # "_"
    /\ \A i \in 1..(Len(s) - 1) : ~(s[i] = "_" /\ s[i + 1] = "_")
    /\ AllDigits(SelectSeq(s, NotUnderscore))

\* int(s) in base 10: surrounding whitespace is stripped, then an optional
\* sign and decimal digits grouped by single underscores; anything else, and
\* a text of more than MaxStrDigits digits (leading zeros counted,
\* underscores not), raises ValueError (ok = FALSE)
ParseInt(s) ==
    LET b      == Strip(s)
        signed == b # <<>> /\ b[1] \in {"-", "+"}
        body   == IF signed THEN Tail(b) ELSE b
        digits == SelectSeq(body, NotUnderscore)
        n      == DigitsVal(digits)
    IN  IF DigitGroups(body) /\ Len(digits) <= MaxStrDigits
        THEN [ok |-> TRUE, val |-> IF signed /\ b[1] = "-" THEN 0 - n ELSE n]
        ELSE [ok |-> FALSE, val |-> 0]

\* a range check that lets 1001 through
InRangeOffByOne(n) == ~(n < MinRange \/ n > MaxRange + 1)

\* not (new_max < 1 or new_max > 1000)
InRange(n) == ~(n < MinRange \/ n > MaxRange)

\* the try block reaches line 126: int() succeeded and the value is in range
AcceptsRange(s) == ParseInt(s).ok /\ InRange(ParseInt(s).val)

\* int(args[1]) and the outcome of lines 121-123 for each text a handler
\* receives, evaluated once
IntOfArg == [a \in RangeTexts |-> ParseInt(a)]
AcceptedArg == [a \in RangeTexts |-> AcceptsRange(a)]

\* ---- the lock -----------------------------------------------------------
\* an acquire that never waits
CanAcquireAlways(t) == TRUE

\* threading.Lock.acquire: blocks until no thread holds the lock (the lock is
\* not reentrant and has no owner: leaving a with block frees it)
CanAcquire(t) == lock = NoThread

\* ---- positions ----------------------------------------------------------
\* positions at which the thread's next step is a network call
SendPcs == {"ask_usage", "ask_typing", "ask_request", "ask_send_answer",
            "ask_error", "wipe_reply", "ctx_send", "range_send_current",
            "range_send_updated", "range_send_invalid"}

\* positions at which the thread's next step reads or writes _histories
AccessPcs == {"ask_add_user_locked", "ask_get_locked", "ask_add_asst_locked",
              "wipe_locked", "ctx_get_locked", "ctx_maxlen", "ctx_missing",
              "range_locked", "range_build", "range_store",
              "call_add_locked", "call_get_locked"}

\* the add_message calls a running /chat handler may still make
Owed(t) ==
    IF pc[t] \in {"ask_add_user", "ask_add_user_locked"} THEN 2
    ELSE IF pc[t] \in {"ask_get", "ask_get_locked", "ask_typing", "ask_request",
                       "ask_add_asst", "ask_add_asst_locked"} THEN 1
    ELSE 0

RECURSIVE OwedUpTo(_)
OwedUpTo(n) == IF n = 0 THEN 0 ELSE Owed(n) + OwedUpTo(n - 1)

\* ---- initial state ------------------------------------------------------
Init ==
    /\ histories = [c \in {} |-> NoDeque]
    /\ lock = NoThread
    /\ heap = <<>>
    /\ pc = [t \in Threads |-> "idle"]
    /\ chat_id = [t \in Threads |-> 0]
    /\ prompt = [t \in Threads |-> ""]
    /\ args = [t \in Threads |-> <<>>]
    /\ history = [t \in Threads |-> <<>>]
    /\ old_max = [t \in Threads |-> 0]
    /\ new_deque = [t \in Threads |-> NoDeque]
    /\ answer = [t \in Threads |-> ""]
    /\ appended = [c \in ChatIds |-> <<>>]

\* a handler returns: its locals die
Return(t) ==
    /\ pc' = [pc EXCEPT ![t] = "idle"]
    /\ chat_id' = [chat_id EXCEPT ![t] = 0]
    /\ prompt' = [prompt EXCEPT ![t] = ""]
    /\ args' = [args EXCEPT ![t] = <<>>]
    /\ history' = [history EXCEPT ![t] = <<>>]
    /\ old_max' = [old_max EXCEPT ![t] = 0]
    /\ new_deque' = [new_deque EXCEPT ![t] = NoDeque]
    /\ answer' = [answer EXCEPT ![t] = ""]

Goto(t, p) == pc' = [pc EXCEPT ![t] = p]

\* `with self._lock:` entered at position from
Acquire(t, from, to) ==
    /\ pc[t] = from
    /\ CanAcquire(t)
    /\ lock' = t
    /\ Goto(t, to)
    /\ UNCHANGED <<histories, heap, chat_id, prompt, args, history, old_max,
                   new_deque, answer, appended>>

\* a network call made at position from, outside the lock
Send(t, from, to) ==
    /\ pc[t] = from
    /\ Goto(t, to)
    /\ UNCHANGED <<histories, lock, heap, chat_id, prompt, args, history, old_max,
                   new_deque, answer, appended>>

\* a return from position from
Leave(t, from) ==
    /\ pc[t] = from
    /\ Return(t)
    /\ UNCHANGED <<histories, lock, heap, appended>>

\* the last network call of a handler, outside the lock
SendAndReturn(t, from) == Leave(t, from)

\* ---- ConversationManager ------------------------------------------------
\* add_message's locked region:
\*   self._histories[chat_id].append({"role": role, "content": content})
\* and the release of the lock
add_message(t, role, content, to) ==
    LET id == Len(heap) + 1
        h  == GetItem(histories, chat_id[t])
    IN  /\ heap' = Append(heap, [role |-> role, content |-> content])
        /\ histories' = SetItem(h, chat_id[t], DequeAppend(h[chat_id[t]], id))
        /\ appended' = [appended EXCEPT ![chat_id[t]] = @ \o <<id>>]
        /\ lock' = NoThread
        /\ Goto(t, to)
        /\ UNCHANGED <<chat_id, prompt, args, history, old_max, new_deque, answer>>

\* get_history's locked region, return list(self._histories[chat_id]), and
\* the list the caller makes of the returned one: prefix is <<SysId>> for
\* the handlers' [SYSTEM_PROMPT] + conv_mgr.get_history(chat_id) (lines 64
\* and 94) and <<>> for a caller that keeps the returned list as it is
get_history(t, prefix, to) ==
    LET h == GetItem(histories, chat_id[t])
    IN  /\ histories' = h
        /\ history' = [history EXCEPT ![t] = prefix \o ListCopy(h[chat_id[t]])]
        /\ lock' = NoThread
        /\ Goto(t, to)
        /\ UNCHANGED <<heap, chat_id, prompt, args, old_max, new_deque, answer, appended>>

\* clear's locked region: self._histories.pop(chat_id, None)
clear(t, to) ==
    /\ histories' = Pop(histories, chat_id[t])
    /\ appended' = [appended EXCEPT ![chat_id[t]] = <<>>]
    /\ lock' = NoThread
    /\ Goto(t, to)
    /\ UNCHANGED <<heap, chat_id, prompt, args, history, old_max, new_deque, answer>>

\* ---- /chat --------------------------------------------------------------
AskStart(t, c, p) ==
    /\ pc[t] = "idle"
    /\ p # "" => Len(heap) + OwedUpTo(num_threads) + 2 <= MaxMsgs
    /\ chat_id' = [chat_id EXCEPT ![t] = c]
    /\ prompt' = [prompt EXCEPT ![t] = p]
    /\ Goto(t, IF p = "" THEN "ask_usage" ELSE "ask_add_user")
    /\ UNCHANGED <<histories, lock, heap, args, history, old_max, new_deque,
                   answer, appended>>

AskUsage(t) == SendAndReturn(t, "ask_usage")

AskAddUserLock(t) == Acquire(t, "ask_add_user", "ask_add_user_locked")

\* a handler that stores the prompt under the role of the system message
AskAddUserAsSystem(t) ==
    /\ pc[t] = "ask_add_user_locked"
    /\ add_message(t, "system", prompt[t], "ask_get")

AskAddUser(t) ==
    /\ pc[t] = "ask_add_user_locked"
    /\ add_message(t, "user", prompt[t], "ask_get")

AskGetLock(t) == Acquire(t, "ask_get", "ask_get_locked")

AskGet(t) ==
    /\ pc[t] = "ask_get_locked"
    /\ get_history(t, <<SysId>>, "ask_typing")

\* a handler that records the answer without waiting for the completion
AskTypingSkipsRequest(t) == Send(t, "ask_typing", "ask_add_asst")

AskTyping(t) == Send(t, "ask_typing", "ask_request")

\* send_chat_action (line 66, outside the try block) raises: the handler ends
AskTypingFails(t) == Leave(t, "ask_typing")

\* the completion request returns an answer
AskReply(t) ==
    /\ pc[t] = "ask_request"
    /\ \E a \in Answers : answer' = [answer EXCEPT ![t] = a]
    /\ Goto(t, "ask_add_asst")
    /\ UNCHANGED <<histories, lock, heap, chat_id, prompt, args, history, old_max,
                   new_deque, appended>>

\* an error path that takes the unanswered prompt back out of the history
AskFailRollsBack(t) ==
    /\ pc[t] = "ask_request"
    /\ Goto(t, "ask_error")
    /\ histories' = [c \in DOMAIN histories |->
                       IF c = chat_id[t] /\ Len(histories[c].q) > 0
                       THEN [histories[c] EXCEPT
                                !.q = SubSeq(@, 1, Len(@) - 1)]
                       ELSE histories[c]]
    /\ UNCHANGED <<lock, heap, chat_id, prompt, args, history, old_max,
                   new_deque, answer, appended>>

\* the completion request raises
AskFail(t) == Send(t, "ask_request", "ask_error")

AskAddAsstLock(t) == Acquire(t, "ask_add_asst", "ask_add_asst_locked")

AskAddAsst(t) ==
    /\ pc[t] = "ask_add_asst_locked"
    /\ add_message(t, "assistant", answer[t], "ask_send_answer")

AskSendAnswer(t) == SendAndReturn(t, "ask_send_answer")

\* send_message (line 81, inside the try block) raises: line 83 catches it
AskSendAnswerFails(t) == Send(t, "ask_send_answer", "ask_error")

AskSendError(t) == SendAndReturn(t, "ask_error")

\* ---- /chat_wipe ---------------------------------------------------------
WipeStart(t, c) ==
    /\ pc[t] = "idle"
    /\ chat_id' = [chat_id EXCEPT ![t] = c]
    /\ Goto(t, "wipe")
    /\ UNCHANGED <<histories, lock, heap, prompt, args, history, old_max, new_deque,
                   answer, appended>>

WipeLock(t) == Acquire(t, "wipe", "wipe_locked")

WipeClear(t) ==
    /\ pc[t] = "wipe_locked"
    /\ clear(t, "wipe_reply")

WipeReply(t) == SendAndReturn(t, "wipe_reply")


\* ---- /chat_context ------------------------------------------------------
CtxStart(t, c) ==
    /\ pc[t] = "idle"
    /\ chat_id' = [chat_id EXCEPT ![t] = c]
    /\ Goto(t, "ctx_get")
    /\ UNCHANGED <<histories, lock, heap, prompt, args, history, old_max,
                   new_deque, answer, appended>>

CtxGetLock(t) == Acquire(t, "ctx_get", "ctx_get_locked")

CtxGet(t) ==
    /\ pc[t] = "ctx_get_locked"
    /\ get_history(t, <<SysId>>, "ctx_maxlen")

\* line 96, conv_mgr._histories[chat_id].maxlen, evaluated without the lock.
\* A present key gives its deque's maxlen; a missing key enters
\* defaultdict.__missing__, which calls the factory (Python code, during
\* which other threads run) before it stores the value.
CtxMaxlen(t) ==
    /\ pc[t] = "ctx_maxlen"
    /\ IF Present(chat_id[t])
       THEN /\ old_max' = [old_max EXCEPT ![t] = histories[chat_id[t]].maxlen]
            /\ Goto(t, "ctx_send")
       ELSE /\ Goto(t, "ctx_missing")
            /\ UNCHANGED old_max
    /\ UNCHANGED <<histories, lock, heap, chat_id, prompt, args, history,
                   new_deque, answer, appended>>

\* __missing__ stores the factory's deque under the key, whatever the key
\* holds by now, and line 96 reads that deque's maxlen
CtxMissingStore(t) ==
    /\ pc[t] = "ctx_missing"
    /\ histories' = SetItem(histories, chat_id[t], DefaultFactory)
    /\ old_max' = [old_max EXCEPT ![t] = DefaultFactory.maxlen]
    /\ Goto(t, "ctx_send")
    /\ UNCHANGED <<lock, heap, chat_id, prompt, args, history, new_deque,
                   answer, appended>>

CtxSend(t) == SendAndReturn(t, "ctx_send")

\* ---- /chat_range --------------------------------------------------------
RangeStart(t, c, a) ==
    /\ pc[t] = "idle"
    /\ chat_id' = [chat_id EXCEPT ![t] = c]
    /\ args' = [args EXCEPT ![t] = a]
    /\ Goto(t, "range")
    /\ UNCHANGED <<histories, lock, heap, prompt, history, old_max,
                   new_deque, answer, appended>>

\* line 114: with conv_mgr._lock
RangeLock(t) == Acquire(t, "range", "range_locked")

\* lines 115-123: old_max = conv_mgr._histories[chat_id].maxlen, then the
\* branch on len(args), int(args[1]) and the range check
RangeRead(t) ==
    LET h == GetItem(histories, chat_id[t])
    IN  /\ pc[t] = "range_locked"
        /\ histories' = h
        /\ old_max' = [old_max EXCEPT ![t] = h[chat_id[t]].maxlen]
        /\ Goto(t, IF args[t] = NoArg THEN "range_send_current"
                   ELSE IF AcceptedArg[args[t]] THEN "range_build"
                   ELSE "range_send_invalid")
        /\ UNCHANGED <<lock, heap, chat_id, prompt, args, history, new_deque,
                       answer, appended>>

\* line 126: new_deque = deque(conv_mgr._histories[chat_id], maxlen=new_max)
RangeBuild(t) ==
    LET h == GetItem(histories, chat_id[t])
    IN  /\ pc[t] = "range_build"
        /\ histories' = h
        /\ new_deque' = [new_deque EXCEPT
                           ![t] = Deque(h[chat_id[t]].q, IntOfArg[args[t]].val)]
        /\ Goto(t, "range_store")
        /\ UNCHANGED <<lock, heap, chat_id, prompt, args, history, old_max,
                       answer, appended>>

\* line 127: conv_mgr._histories[chat_id] = new_deque
RangeStore(t) ==
    /\ pc[t] = "range_store"
    /\ histories' = SetItem(histories, chat_id[t], new_deque[t])
    /\ appended' = [appended EXCEPT ![chat_id[t]] = new_deque[t].q]
    /\ Goto(t, "range_send_updated")
    /\ UNCHANGED <<lock, heap, chat_id, prompt, args, history, old_max,
                   new_deque, answer>>

\* a bot.send_message inside the with block, then the block's exit releases
\* the lock and the handler returns
\* a return from under the lock that does not release it
SendLockedKeepsLock(t, from) ==
    /\ pc[t] = from
    /\ Return(t)
    /\ UNCHANGED <<histories, lock, heap, appended>>

SendLockedAndReturn(t, from) ==
    /\ pc[t] = from
    /\ lock' = NoThread
    /\ Return(t)
    /\ UNCHANGED <<histories, heap, appended>>

\* line 118
RangeSendCurrent(t) == SendLockedAndReturn(t, "range_send_current")

\* line 129
RangeSendUpdated(t) == SendLockedAndReturn(t, "range_send_updated")

\* send_message of line 129, inside the try block, raises a ValueError (a
\* UnicodeEncodeError is one): line 130 catches it and line 131 follows, the
\* lock still held
RangeSendUpdatedRaises(t) ==
    /\ pc[t] = "range_send_updated"
    /\ Goto(t, "range_send_invalid")
    /\ UNCHANGED <<histories, lock, heap, chat_id, prompt, args, history,
                   old_max, new_deque, answer, appended>>

\* line 131
RangeSendInvalid(t) == SendLockedAndReturn(t, "range_send_invalid")

\* ---- a caller of conv_mgr's methods ---------------------------------------
\* conv_mgr.add_message(c, role, content), with user and assistant messages
\* in turn
CallAdd(t, c) ==
    /\ pc[t] = "idle"
    /\ Len(heap) < MaxAppends
    /\ chat_id' = [chat_id EXCEPT ![t] = c]
    /\ Goto(t, "call_add")
    /\ UNCHANGED <<histories, lock, heap, prompt, args, history, old_max,
                   new_deque, answer, appended>>

CallAddLock(t) == Acquire(t, "call_add", "call_add_locked")

CallAddAppend(t) ==
    /\ pc[t] = "call_add_locked"
    /\ IF Len(heap) % 2 = 0
       THEN add_message(t, "user", "p", "call_added")
       ELSE add_message(t, "assistant", "a", "call_added")

CallAddReturn(t) == Leave(t, "call_added")

\* history = conv_mgr.get_history(c)
CallGet(t, c) ==
    /\ pc[t] = "idle"
    /\ chat_id' = [chat_id EXCEPT ![t] = c]
    /\ Goto(t, "call_get")
    /\ UNCHANGED <<histories, lock, heap, prompt, args, history, old_max,
                   new_deque, answer, appended>>

CallGetLock(t) == Acquire(t, "call_get", "call_get_locked")

CallGetCopy(t) ==
    /\ pc[t] = "call_get_locked"
    /\ get_history(t, <<>>, "call_got")

CallGetReturn(t) == Leave(t, "call_got")

caller(t, C) ==
    \/ \E c \in C : CallAdd(t, c) \/ CallGet(t, c)
    \/ CallAddLock(t) \/ CallAddAppend(t) \/ CallAddReturn(t)
    \/ CallGetLock(t) \/ CallGetCopy(t) \/ CallGetReturn(t)

\* ---- the program --------------------------------------------------------
\* the handlers, for messages of the chats C
ask_ds(t, C) ==
    \/ \E c \in C, p \in Prompts : AskStart(t, c, p)
    \/ AskUsage(t) \/ AskAddUserLock(t) \/ AskAddUser(t)
    \/ AskGetLock(t) \/ AskGet(t) \/ AskTyping(t) \/ AskTypingFails(t)
    \/ AskReply(t) \/ AskFail(t)
    \/ AskAddAsstLock(t) \/ AskAddAsst(t) \/ AskSendAnswer(t)
    \/ AskSendAnswerFails(t) \/ AskSendError(t)

wipe_chat(t, C) ==
    \/ \E c \in C : WipeStart(t, c)
    \/ WipeLock(t) \/ WipeClear(t) \/ WipeReply(t)

chat_context(t, C) ==
    \/ \E c \in C : CtxStart(t, c)
    \/ CtxGetLock(t) \/ CtxGet(t) \/ CtxMaxlen(t) \/ CtxMissingStore(t)
    \/ CtxSend(t)

chat_range(t, C) ==
    \/ \E c \in C, a \in {NoArg} \cup RangeTexts : RangeStart(t, c, a)
    \/ RangeLock(t) \/ RangeRead(t) \/ RangeBuild(t) \/ RangeStore(t)
    \/ RangeSendCurrent(t) \/ RangeSendUpdated(t) \/ RangeSendUpdatedRaises(t)
    \/ RangeSendInvalid(t)

\* both worker threads handle messages of one chat
Next ==
    \E t \in Threads :
        \/ ask_ds(t, SharedChat) \/ wipe_chat(t, SharedChat)
        \/ chat_context(t, SharedChat) \/ chat_range(t, SharedChat)

Spec == Init /\ [][Next]_vars

\* the handlers that reach the store through its operations under the lock:
\* addMessage and getHistory (/chat), clear (/chat_wipe), resize (/chat_range)
StoreOpsNext ==
    \E t \in Threads :
        \/ ask_ds(t, SharedChat) \/ wipe_chat(t, SharedChat)
        \/ chat_range(t, SharedChat)

SpecStoreOps == Init /\ [][StoreOpsNext]_vars

\* one thread: a caller of add_message and get_history, and the /chat_wipe
\* and /chat_range handlers
SequentialNext ==
    \/ caller(1, SharedChat) \/ wipe_chat(1, SharedChat)
    \/ chat_range(1, SharedChat)

SpecSequential == Init /\ [][SequentialNext]_vars


\* ---- a caller that edits what get_history returned ----------------------
\* positions at which a handler holds the list built from get_history's
\* return value
HoldingPcs == {"ask_typing", "ask_request", "ask_add_asst",
               "ask_add_asst_locked", "ask_send_answer", "ask_error",
               "ctx_maxlen", "ctx_missing", "ctx_send"}

\* del history[-1] on the caller's list
CallerEditsList(t) ==
    /\ pc[t] \in HoldingPcs
    /\ Len(history[t]) > 1
    /\ history' = [history EXCEPT ![t] = SubSeq(@, 1, Len(@) - 1)]
    /\ UNCHANGED <<histories, lock, heap, pc, chat_id, prompt, args, old_max,
                   new_deque, answer, appended>>

\* history[i]["content"] = "edited" on a message dict of the caller's list
CallerEditsMessage(t) ==
    /\ pc[t] \in HoldingPcs
    /\ \E i \in 2..Len(history[t]) :
        /\ heap[history[t][i]].content # "edited"
        /\ heap' = [heap EXCEPT ![history[t][i]].content = "edited"]
    /\ UNCHANGED <<histories, lock, pc, chat_id, prompt, args, history,
                   old_max, new_deque, answer, appended>>

AliasNext ==
    \E t \in Threads :
        \/ ask_ds(t, SharedChat) \/ wipe_chat(t, SharedChat)
        \/ chat_context(t, SharedChat)
        \/ CallerEditsList(t) \/ CallerEditsMessage(t)

SpecAlias == Init /\ [][AliasNext]_vars

\* ---- two chats -----------------------------------------------------------
\* the handlers that change the store, for messages of two chats: one worker
\* takes /chat, /chat_wipe and /chat_range of both chats, the other /chat and
\* /chat_wipe of chat 2, with at most MaxTwoChatMsgs messages appended by
\* /chat
TwoChatsNext ==
    /\ \/ ask_ds(1, ChatIds) \/ wipe_chat(1, ChatIds) \/ chat_range(1, ChatIds)
       \/ ask_ds(2, {2}) \/ wipe_chat(2, {2})
    /\ \A t \in Threads :
          (pc[t] = "idle" /\ pc'[t] = "ask_add_user")
          => Len(heap) + OwedUpTo(num_threads) + 2 <= MaxTwoChatMsgs

SpecTwoChats == Init /\ [][TwoChatsNext]_vars

\* ---- scheduling ---------------------------------------------------------
\* the waits of thread t for the lock: the `with` statements of lines 22, 27,
\* 31 and 114
LockWaits(t) ==
    \/ AskAddUserLock(t) \/ AskGetLock(t) \/ AskAddAsstLock(t)
    \/ WipeLock(t) \/ CtxGetLock(t) \/ RangeLock(t)

\* the other steps of a handler that thread t has started: statements that
\* need nothing from another thread, and network calls, which return
Proceeds(t) ==
    \/ AskUsage(t) \/ AskAddUser(t) \/ AskGet(t) \/ AskTyping(t)
    \/ AskTypingFails(t) \/ AskReply(t) \/ AskFail(t) \/ AskAddAsst(t)
    \/ AskSendAnswer(t) \/ AskSendAnswerFails(t) \/ AskSendError(t)
    \/ WipeClear(t) \/ WipeReply(t)
    \/ CtxGet(t) \/ CtxMaxlen(t) \/ CtxMissingStore(t) \/ CtxSend(t)
    \/ RangeRead(t) \/ RangeBuild(t) \/ RangeStore(t)
    \/ RangeSendCurrent(t) \/ RangeSendUpdated(t) \/ RangeSendUpdatedRaises(t)
    \/ RangeSendInvalid(t)

\* the program with at most MaxFairMsgs messages appended by /chat
FairNext ==
    /\ Next
    /\ \A t \in Threads :
          (pc[t] = "idle" /\ pc'[t] = "ask_add_user")
          => Len(heap) + OwedUpTo(num_threads) + 2 <= MaxFairMsgs

\* a running thread is scheduled again and again, and a thread blocked in
\* Lock.acquire gets the lock if the lock stays free; threading.Lock does not
\* say which waiter or newcomer gets a lock that is released and taken again
SpecFair ==
    /\ Init /\ [][FairNext]_vars
    /\ \A t \in Threads : WF_vars(Proceeds(t)) /\ WF_vars(LockWaits(t))

\* ======================= properties ======================================
\* thread t takes a step from position p
Steps(t, p) == pc[t] = p /\ pc'[t] # p

\* thread t leaves one of add_message's locked regions for chat c
Appends(t, c) ==
    /\ chat_id[t] = c
    /\ Steps(t, "ask_add_user_locked") \/ Steps(t, "ask_add_asst_locked")

\* the /chat_range texts that denote a capacity in [1, 1000], and the
\* capacity each denotes
ValidRangeTexts == { <<"1">>, <<"2">>, <<"1", "0", "0", "0">>,
                     <<"2", " ">>, <<"U+FF10", "_", "1">> }

Denoted(a) ==
    CASE a = <<"1">> -> 1
      [] a = <<"2">> -> 2
      [] a = <<"1", "0", "0", "0">> -> 1000
      [] a = <<"2", " ">> -> 2
      [] a = <<"U+FF10", "_", "1">> -> 1

\* C1: in every reachable state each conversation's stored history has at
\* most as many messages as the conversation's current capacity.
HistoryWithinCapacity == \A c \in ChatIds : Len(Hist(c)) <= Cap(c)

\* a conversation is full after an append that exceeded its capacity
WitnessFullAfterEviction ==
    \E c \in ChatIds :
        /\ Present(c)
        /\ Len(Hist(c)) = Cap(c)
        /\ Len(appended[c]) > Cap(c)

\* C2: after k appends to a conversation of capacity c with no clear or
\* resize in between, its history is exactly the last min(k, c) messages
\* appended, in the order of their appends.
FifoEviction ==
    \A c \in ChatIds :
        Hist(c) = LastN(appended[c], Min(Len(appended[c]), Cap(c)))

\* 35 appends to a conversation of the default capacity: get_history
\* returns 30 messages, the first of them the 6th appended
WitnessOldestEvicted ==
    \E t \in Threads, c \in ChatIds :
        /\ pc[t] = "call_got"
        /\ chat_id[t] = c
        /\ Cap(c) = 30
        /\ Len(appended[c]) = 35
        /\ Len(history[t]) = 30
        /\ history[t][1] = appended[c][6]

ResizeKeepsNewest ==
    [][\A t \in Threads :
        \A c \in ChatIds, n \in {Denoted(a) : a \in ValidRangeTexts} :
            (/\ args[t] \in ValidRangeTexts
             /\ n = Denoted(args[t])
             /\ c = chat_id[t]
             /\ pc'[t] # pc[t])
            => /\ pc[t] = "range_locked" => pc'[t] = "range_build"
               /\ pc[t] = "range_store" =>
                    /\ Cap(c)' = n
                    /\ Hist(c)' = LastN(Hist(c), Min(Len(Hist(c)), n))
               /\ pc[t] = "range_send_updated" =>
                    /\ Cap(c)' = Cap(c)
                    /\ Hist(c)' = Hist(c)]_vars

\* a resize to 2 has cut a history of three messages, which another handler
\* had read in full, to its two newest
WitnessResizeTruncated ==
    \E t, u \in Threads :
        /\ pc[t] = "range_send_updated"
        /\ history[u] = <<SysId, 1, 2, 3>>
        /\ chat_id[u] = chat_id[t]
        /\ Cap(chat_id[t]) = 2
        /\ Hist(chat_id[t]) = <<2, 3>>

\* C5: with resizes and appends interleaved, every step other than a clear
\* leaves a conversation's history equal to its previous history, followed
\* by the message the step appends if it appends one, less a prefix that is
\* dropped only to fit the capacity; and no message occurs in it twice.
ResizeAtomicWithAppend ==
    [][\A c \in ChatIds :
        (~ \E t \in Threads : chat_id[t] = c /\ Steps(t, "wipe_locked"))
        => LET base == IF \E t \in Threads : Appends(t, c)
                       THEN Hist(c) \o <<Len(heap')>>
                       ELSE Hist(c)
           IN  /\ \E k \in 0..Len(base) :
                    /\ Hist(c)' = LastN(base, k)
                    /\ k < Len(base) => k = Cap(c)'
               /\ \A i, j \in 1..Len(Hist(c)') :
                    Hist(c)'[i] = Hist(c)'[j] => i = j]_vars

\* a resize has stored its deque while an append to the same conversation
\* waits for the lock
WitnessAppendWaitsForResize ==
    \E t, u \in Threads :
        /\ pc[t] = "range_send_updated"
        /\ pc[u] \in {"ask_add_user", "ask_add_asst"}
        /\ chat_id[u] = chat_id[t]
        /\ Hist(chat_id[t]) # <<>>
        /\ lock = t

\* C6: the step of clear leaves the conversation with an empty history and
\* the default capacity, whatever it held before.
ClearResetsConversation ==
    [][\A t \in Threads, c \in ChatIds :
        (Steps(t, "wipe_locked") /\ c = chat_id[t])
        => /\ Hist(c)' = <<>>
           /\ Cap(c)' = max_turns]_vars

\* a clear has removed a conversation that another handler saw holding
\* messages under capacity 2
WitnessClearedResized ==
    \E t, u \in Threads :
        /\ pc[t] = "wipe_reply"
        /\ pc[u] = "ctx_send"
        /\ chat_id[u] = chat_id[t]
        /\ old_max[u] = 2
        /\ Len(history[u]) > 1
        /\ ~Present(chat_id[t])


\* the messages getHistory(c) returns, by value
Stored(c) == Values(Hist(c))

\* C7: a caller's edit of what get_history returned changes no
\* conversation's stored messages, and a store operation of one handler
\* changes no list, and no message of a list, that another handler got from
\* get_history.
ReturnedCopyIsIndependent ==
    [][/\ pc' = pc => \A c \in ChatIds : Stored(c)' = Stored(c)
       /\ \A t \in Threads :
            (pc'[t] = pc[t] /\ pc' # pc) => Values(history[t])' = Values(history[t])]_vars

\* C8: whenever a thread is about to read or write the mapping from chat id
\* to history, it holds the store lock.
StoreAccessUnderLock == \A t \in Threads : pc[t] \in AccessPcs => lock = t

\* C9: no thread makes a network call while it holds the store lock.
NoSendUnderLock == \A t \in Threads : pc[t] \in SendPcs => lock # t

\* C10: the list get_history returns is the conversation's whole history in
\* the state in which its locked region runs, and until the handler returns
\* no step of any thread changes that list or the messages in it.
SnapshotIsWholeHistory ==
    [][\A t \in Threads, c \in ChatIds :
        /\ (c = chat_id[t] /\ (Steps(t, "ask_get_locked") \/ Steps(t, "ctx_get_locked")))
           => history'[t] = <<SysId>> \o Hist(c)
        /\ (pc[t] \in HoldingPcs /\ pc'[t] # "idle")
           => /\ history'[t] = history[t]
              /\ Values(history[t])' = Values(history[t])]_vars

\* a /chat handler holds a snapshot with the prompts of both running /chat
\* handlers while the other one still owes its reply
WitnessSnapshotBetweenAppends ==
    \E t, u \in Threads :
        /\ pc[t] = "ask_typing"
        /\ pc[u] = "ask_add_asst"
        /\ chat_id[u] = chat_id[t]
        /\ history[t] = <<SysId, 1, 2>>
        /\ Hist(chat_id[t]) = <<1, 2>>


\* C11: an id with no entry (never used, or cleared) is an empty conversation
\* of capacity 30: get_history returns no message for it, the capacity reads
\* of /chat_range and /chat_context give 30, and add_message, clear and
\* /chat_range take their normal path, add_message leaving exactly the new
\* message under capacity 30.
UnseenIdIsEmptyDefault ==
    [][\A t \in Threads, c \in ChatIds :
        (c = chat_id[t] /\ ~Present(c))
        => /\ Steps(t, "ctx_get_locked")
              => /\ history'[t] = <<SysId>>
                 /\ pc'[t] = "ctx_maxlen"
           /\ Steps(t, "call_get_locked")
              => /\ history'[t] = <<>>
                 /\ pc'[t] = "call_got"
           /\ (Steps(t, "ask_add_user_locked") \/ Steps(t, "ask_add_asst_locked"))
              => /\ Hist(c)' = <<Len(heap')>>
                 /\ Cap(c)' = 30
                 /\ pc'[t] \in {"ask_get", "ask_send_answer"}
           /\ Steps(t, "wipe_locked")
              => /\ Hist(c)' = <<>> /\ Cap(c)' = 30
                 /\ pc'[t] = "wipe_reply"
           /\ Steps(t, "range_locked")
              => /\ old_max'[t] = 30
                 /\ Hist(c)' = <<>> /\ Cap(c)' = 30
                 /\ pc'[t] \in {"range_send_current", "range_build",
                                "range_send_invalid"}
           /\ Steps(t, "ctx_maxlen") => pc'[t] = "ctx_missing"
           /\ Steps(t, "ctx_missing") => old_max'[t] = 30]_vars

\* /chat_context shows an empty history under capacity 30 for a chat whose
\* messages were cleared
WitnessClearedIdReadsEmpty ==
    \E t \in Threads :
        /\ pc[t] = "ctx_send"
        /\ history[t] = <<SysId>>
        /\ old_max[t] = 30
        /\ Len(heap) >= 1
        /\ appended[chat_id[t]] = <<>>

\* C12: the step of clear on an id with no entry leaves the mapping as it
\* was, and after any clear a second clear of the same id would change
\* nothing.
ClearIsIdempotent ==
    [][\A t \in Threads, c \in ChatIds :
        (c = chat_id[t] /\ Steps(t, "wipe_locked"))
        => /\ ~Present(c) => histories' = histories
           /\ Pop(histories', c) = histories']_vars

\* two /chat_wipe handlers have cleared the same chat one after the other
WitnessClearedTwice ==
    /\ \A t \in Threads : pc[t] = "wipe_reply" /\ chat_id[t] = 1
    /\ ~Present(1)
    /\ Len(heap) >= 1


\* the positions of /chat from the append of the prompt up to the pending
\* completion request
BeforeReplyPcs ==
    {"ask_add_user", "ask_add_user_locked", "ask_get", "ask_get_locked",
     "ask_typing", "ask_request"}

WithRole(r) == {i \in 1..Len(heap) : heap[i].role = r}

\* C13: a /chat with a non-empty prompt appends the prompt with role user
\* before it issues the completion request, and appends the assistant message
\* only after the reply has arrived: every assistant message is appended by a
\* handler that holds the reply and carries that reply as its content, and a
\* handler that has no reply yet has appended none.
UserBeforeRequestAssistantAfterReply ==
    [][/\ \A t \in Threads, c \in ChatIds :
            /\ (c = chat_id[t] /\ Steps(t, "ask_add_user_locked"))
               => /\ prompt[t] # ""
                  /\ heap' = Append(heap, [role |-> "user", content |-> prompt[t]])
                  /\ Hist(c)'[Len(Hist(c)')] = Len(heap')
                  /\ pc'[t] = "ask_get"
            /\ (pc[t] # "ask_request" /\ pc'[t] = "ask_request")
               => /\ \E i \in WithRole("user") : heap[i].content = prompt[t]
                  /\ answer[t] = ""
            /\ pc[t] \in BeforeReplyPcs
               => /\ answer[t] = ""
                  /\ (heap' # heap /\ pc'[t] # pc[t])
                     => heap'[Len(heap')].role = "user"
       /\ (Len(heap') > Len(heap) /\ heap'[Len(heap')].role = "assistant")
          => \E t \in Threads :
                /\ Steps(t, "ask_add_asst_locked")
                /\ answer[t] \in Answers
                /\ heap'[Len(heap')].content = answer[t]
       /\ Cardinality(WithRole("assistant")') <= Cardinality(WithRole("user")')]_vars

\* a /chat has stored its prompt and, after the reply, the answer behind it
WitnessAnswerAfterPrompt ==
    \E t \in Threads :
        /\ pc[t] = "ask_send_answer"
        /\ Len(Hist(chat_id[t])) >= 2
        /\ Deref(Hist(chat_id[t])[Len(Hist(chat_id[t])) - 1])
              = [role |-> "user", content |-> prompt[t]]
        /\ Deref(Hist(chat_id[t])[Len(Hist(chat_id[t]))])
              = [role |-> "assistant", content |-> answer[t]]

\* C14: the payload of every completion request is the system message followed
\* by references to stored messages of roles user and assistant, and no stored
\* history holds a message of role system.
SystemMessageOutsideStore ==
    /\ \A c \in ChatIds : \A i \in 1..Len(Hist(c)) :
          /\ Hist(c)[i] # SysId
          /\ Deref(Hist(c)[i]).role \in {"user", "assistant"}
    /\ \A i \in 1..Len(heap) : heap[i].role # "system"
    /\ \A t \in Threads :
          pc[t] \in {"ask_typing", "ask_request"}
          => /\ Len(history[t]) >= 1
             /\ history[t][1] = SysId
             /\ Deref(history[t][1]) = SYSTEM_PROMPT
             /\ \A i \in 2..Len(history[t]) :
                   /\ history[t][i] \in 1..Len(heap)
                   /\ Deref(history[t][i]).role \in {"user", "assistant"}

\* a request is pending whose payload is the system message and a prompt, an
\* answer and a second prompt from the store
WitnessPayloadWithHistory ==
    \E t \in Threads :
        /\ pc[t] = "ask_request"
        /\ Len(history[t]) = 4
        /\ Deref(history[t][1]).role = "system"
        /\ Deref(history[t][3]).role = "assistant"


\* C15: the payload built for a /chat ends with the message that request
\* appended: its last element is a stored message of role user whose content
\* is the request's prompt (a condition the request's own message meets).
PayloadEndsWithOwnPrompt ==
    \A t \in Threads :
        pc[t] \in {"ask_typing", "ask_request"}
        => /\ Len(history[t]) >= 2
           /\ Deref(history[t][Len(history[t])])
                 = [role |-> "user", content |-> prompt[t]]

\* C16: the reply of /chat_context never shows more stored messages than the
\* capacity it shows.
ContextCountWithinCapacity ==
    \A t \in Threads :
        pc[t] = "ctx_send" => Len(history[t]) - 1 <= old_max[t]


\* C17: when the completion request fails, the handler's error path (the
\* failure and the error reply) changes no history, no capacity and no stored
\* message, so no assistant message is appended and the prompt stays, and the
\* handler does not hold the lock when the request fails.
FailedRequestLeavesPrompt ==
    [][\A t \in Threads :
        /\ ((Steps(t, "ask_request") /\ pc'[t] = "ask_error") \/ Steps(t, "ask_error"))
           => /\ histories' = histories
              /\ heap' = heap
              /\ lock' = lock
              /\ lock # t
        /\ pc[t] = "ask_error" => pc'[t] \in {"ask_error", "idle"}]_vars

\* every handler has returned and the history ends with a prompt that got no
\* answer
WitnessUnansweredPrompt ==
    /\ \A t \in Threads : pc[t] = "idle"
    /\ Len(Hist(1)) >= 1
    /\ Deref(Hist(1)[Len(Hist(1))]).role = "user"


\* the positions at which a handler waits for the lock
WaitPcs == {"ask_add_user", "ask_get", "ask_add_asst", "wipe", "ctx_get", "range"}

\* C18: a thread that holds the lock eventually releases it, and a handler
\* that waits for the lock eventually acquires it.
LockReleasedAndWaiterAcquires ==
    \A t \in Threads :
        /\ (lock = t) ~> (lock = NoThread)
        /\ (pc[t] \in WaitPcs) ~> (lock = t)

\* C18, amended: a thread that holds the lock eventually releases it, and a
\* handler that waits for the lock eventually acquires it unless other
\* threads take the lock again and again.
LockReleasedAndWaiterNotStuck ==
    \A t \in Threads :
        /\ (lock = t) ~> (lock = NoThread)
        /\ [](pc[t] \in WaitPcs
              => \/ <>(lock = t)
                 \/ []<>(lock \in Threads \ {t}))

\* a /chat_wipe waits for the lock while /chat_range sends its reply under it
WitnessWaitsForSendingHolder ==
    \E t, u \in Threads :
        /\ pc[t] = "wipe"
        /\ lock = u
        /\ pc[u] = "range_send_updated"


\* C19: a step of a handler working on chat a (add_message, clear, the resize
\* of /chat_range, or any other of its steps) leaves the history, the
\* capacity and the entry of every other chat b as they were, whatever the
\* other worker is doing.
ConversationsIsolated ==
    [][\A t \in Threads, a \in ChatIds, b \in ChatIds :
        (a = chat_id[t] /\ b # a /\ pc'[t] # pc[t])
        => /\ Hist(b)' = Hist(b)
           /\ Cap(b)' = Cap(b)
           /\ Present(b)' = Present(b)]_vars

\* chat 1 has just been cleared while chat 2 keeps two messages under a
\* capacity of 2
WitnessOtherChatKept ==
    \E t \in Threads :
        /\ pc[t] = "wipe_reply"
        /\ chat_id[t] = 1
        /\ ~Present(1)
        /\ appended[1] = <<>>
        /\ Len(Hist(2)) = 2
        /\ Cap(2) = 2


\* C20: every conversation's capacity lies in [1, 1000] in every reachable
\* state, and a step changes it only if it is the store of a successful
\* resize of that conversation, to the requested value, or a clear of that
\* conversation, back to the default; so it is the default until a successful
\* resize, and no add_message or get_history changes it.
CapacityChangesOnlyByResizeOrClear ==
    [][\A c \in ChatIds :
        /\ InRange(Cap(c)) /\ InRange(Cap(c)')
        /\ Cap(c)' # Cap(c)
           => \E t \in Threads :
                 /\ c = chat_id[t]
                 /\ \/ /\ Steps(t, "range_store")
                       /\ AcceptsRange(args[t])
                       /\ Cap(c)' = ParseInt(args[t]).val
                    \/ /\ Steps(t, "wipe_locked")
                       /\ Cap(c)' = max_turns]_vars

====
